---- MODULE Spec2Model ----
(***************************************************************************)
(* Model of recognizer::Recognizer (recognizer.cpp / recognizer.h):        *)
(*   - remove_dup          two-pass erase-while-iterating over cv::Rect    *)
(*   - create_text_areas   coverage heuristic                              *)
(*   - string_processing   two-pass character filter                       *)
(*   - normalize_result    word de-duplication                             *)
(*   - get_text            exception flow through find_text_rects          *)
(* Each function has its own specification (SpecDup, SpecAreas, SpecStr,   *)
(* SpecNorm, SpecGet); the variables of the other functions stay idle.     *)
(* Iterators into a std::vector are 1-based positions; end() is Len + 1.   *)
(* Indexes into a std::string are 0-based as in the source (see At).       *)
(* Characters are their ASCII codes.                                       *)
(***************************************************************************)
EXTENDS Integers, Sequences, FiniteSets, TLC

\* ------------------------------------------------------------------ bounds
MaxBoxes == 3
MaxX == 1
MaxY == 0
MaxW == 2
MaxH == 2
MaxImage == 3
MaxAreaBoxes == 2
MaxStrLen == 4
MaxFragLen == 3
MaxFrags == 2
MaxChannels == 3
MaxGroups == 2

\* --------------------------------------------------------------- variables
VARIABLES
    \* remove_dup
    boxes,       \* BoxesGroups& boxes
    outer,       \* pass-1 iterator (0 when out of scope)
    inner,       \* pass-1 inner iterator (0 when out of scope)
    outer_iter,  \* pass-2 iterator (0 when out of scope)
    inner_iter,  \* pass-2 inner iterator (0 when out of scope)
    pc,          \* position in the function
    run,         \* 1: first application, 2: application to its own output
    in0,         \* the sequence handed to the first application
    out1,        \* the result of the first application
    \* create_text_areas
    image,       \* image.size()
    ta_boxes,    \* const BoxesGroups& boxes
    sum_area,    \* int sum_area
    text_areas,  \* TextAreas text_areas
    ta_i,        \* position of the range-for in ta_boxes
    ta_pc,       \* position in the function
    \* string_processing
    str,         \* const std::string& str
    len,         \* std::size_t len
    idx,         \* std::size_t idx
    norm1,       \* std::string norm1
    norm2,       \* std::string norm2
    sp_pc,       \* position in the function
    \* normalize_result
    text,        \* const Text& text
    n_str,       \* std::string str
    words,       \* std::vector<std::string> words
    start,       \* std::string::size_type start
    n_i,         \* position of the range-for in text / words
    n_pc,        \* position in the function
    \* get_text / find_text_rects / alphabet_analisis
    image_empty, \* image.empty()
    cn,          \* std::size_t cn
    c,           \* std::size_t c
    nboxes,      \* boxes_groups.size()
    nareas,      \* text_areas.size()
    exc,         \* the exception in flight
    raised_by,   \* the step that raised the failure
    outcome,     \* how the call ended
    g_pc         \* position in the call

dupVars == <<boxes, outer, inner, outer_iter, inner_iter, pc, run, in0, out1>>

areaVars == <<image, ta_boxes, sum_area, text_areas, ta_i, ta_pc>>

strVars == <<str, len, idx, norm1, norm2, sp_pc>>

normVars == <<text, n_str, words, start, n_i, n_pc>>

getVars == <<image_empty, cn, c, nboxes, nareas, exc, raised_by, outcome, g_pc>>

vars == <<dupVars, areaVars, strVars, normVars, getVars>>

notDup == <<areaVars, strVars, normVars, getVars>>

notAreas == <<dupVars, strVars, normVars, getVars>>

notStr == <<dupVars, areaVars, normVars, getVars>>

notNorm == <<dupVars, areaVars, strVars, getVars>>

notGet == <<dupVars, areaVars, strVars, normVars>>

\* the variables of a function that is not being called
IdleDup ==
    /\ boxes = <<>>
    /\ outer = 0
    /\ inner = 0
    /\ outer_iter = 0
    /\ inner_iter = 0
    /\ pc = "idle"
    /\ run = 0
    /\ in0 = <<>>
    /\ out1 = <<>>

IdleAreas ==
    /\ image = [width |-> 0, height |-> 0]
    /\ ta_boxes = <<>>
    /\ sum_area = 0
    /\ text_areas = <<>>
    /\ ta_i = 0
    /\ ta_pc = "idle"

IdleStr ==
    /\ str = <<>>
    /\ len = 0
    /\ idx = 0
    /\ norm1 = <<>>
    /\ norm2 = <<>>
    /\ sp_pc = "idle"

IdleNorm ==
    /\ text = <<>>
    /\ n_str = <<>>
    /\ words = <<>>
    /\ start = 0
    /\ n_i = 0
    /\ n_pc = "idle"

IdleGet ==
    /\ image_empty = FALSE
    /\ cn = 0
    /\ c = 0
    /\ nboxes = 0
    /\ nareas = 0
    /\ exc = "none"
    /\ raised_by = "none"
    /\ outcome = "idle"
    /\ g_pc = "idle"

Max2(a, b) == IF a >= b THEN a ELSE b

Min2(a, b) == IF a <= b THEN a ELSE b

SeqsUpTo(S, n) == UNION {[1..k -> S] : k \in 0..n}

\* ---------------------------------------------------------------- cv::Rect
Rects ==
    [x : 0..MaxX, y : 0..MaxY, width : 0..MaxW, height : 0..MaxH]

tl(r) == [x |-> r.x, y |-> r.y]

br(r) == [x |-> r.x + r.width, y |-> r.y + r.height]

area(r) == r.width * r.height

contains(r, pt) ==
    /\ r.x <= pt.x
    /\ pt.x < r.x + r.width
    /\ r.y <= pt.y
    /\ pt.y < r.y + r.height

EmptyRect == [x |-> 0, y |-> 0, width |-> 0, height |-> 0]

\* cv::Rect operator& : the intersection, Rect() when it is empty
RectAnd(a, b) ==
    LET x1 == Max2(a.x, b.x)
        y1 == Max2(a.y, b.y)
        w  == Min2(a.x + a.width, b.x + b.width) - x1
        h  == Min2(a.y + a.height, b.y + b.height) - y1
    IN  IF w <= 0 \/ h <= 0
        THEN EmptyRect
        ELSE [x |-> x1, y |-> y1, width |-> w, height |-> h]

\* std::vector::erase(it): the elements after it move down one slot
Erase(s, i) == SubSeq(s, 1, i - 1) \o SubSeq(s, i + 1, Len(s))

\* ------------------------------------------------------------- remove_dup
\* line 156-157
OuterContainsInner(o, i) == contains(o, tl(i)) /\ contains(o, br(i))

\* line 162-163
InnerContainsOuter(o, i) == contains(i, tl(o)) /\ contains(i, br(o))

\* line 164-165 and the ++outer of line 151 that follows the break
P1OuterAfterErase(o) == o + 1

\* line 180
OverlapMut(o, i) == area(RectAnd(i, o)) > 1

Overlap(o, i) == area(RectAnd(i, o)) # 0

\* line 181
OuterDominatesMut(o, i) == area(o) >= area(i)

OuterDominates(o, i) == area(o) > area(i)

InitDup ==
    /\ IdleAreas /\ IdleStr /\ IdleNorm /\ IdleGet
    /\ in0 \in SeqsUpTo(Rects, MaxBoxes)
    /\ boxes = in0
    /\ outer = 0
    /\ inner = 0
    /\ outer_iter = 0
    /\ inner_iter = 0
    /\ pc = "entry"
    /\ run = 1
    /\ out1 = <<>>

\* line 148
P1Begin ==
    /\ pc = "entry"
    /\ outer' = 1
    /\ pc' = "p1_outer"
    /\ UNCHANGED <<boxes, inner, outer_iter, inner_iter, run, in0, out1>>
    /\ UNCHANGED notDup

\* line 151 (condition), 152-153
P1OuterNext ==
    /\ pc = "p1_outer"
    /\ outer # Len(boxes) + 1
    /\ inner' = outer + 1
    /\ pc' = "p1_inner"
    /\ UNCHANGED <<boxes, outer, outer_iter, inner_iter, run, in0, out1>>
    /\ UNCHANGED notDup

\* line 151 (condition false): pass 1 is over
P1OuterEnd ==
    /\ pc = "p1_outer"
    /\ outer = Len(boxes) + 1
    /\ outer' = 0
    /\ pc' = "p2_begin"
    /\ UNCHANGED <<boxes, inner, outer_iter, inner_iter, run, in0, out1>>
    /\ UNCHANGED notDup

\* line 155 (condition false), then ++outer of line 151
P1InnerEnd ==
    /\ pc = "p1_inner"
    /\ inner = Len(boxes) + 1
    /\ outer' = outer + 1
    /\ inner' = 0
    /\ pc' = "p1_outer"
    /\ UNCHANGED <<boxes, outer_iter, inner_iter, run, in0, out1>>
    /\ UNCHANGED notDup

\* line 156-160
P1EraseInner ==
    /\ pc = "p1_inner"
    /\ inner # Len(boxes) + 1
    /\ OuterContainsInner(boxes[outer], boxes[inner])
    /\ boxes' = Erase(boxes, inner)
    /\ UNCHANGED <<outer, inner, outer_iter, inner_iter, pc, run, in0, out1>>
    /\ UNCHANGED notDup

\* line 162-166: erase returns the slot of the erased element, break leaves
\* the inner loop, and the outer for statement then increments outer
P1EraseOuter ==
    /\ pc = "p1_inner"
    /\ inner # Len(boxes) + 1
    /\ ~OuterContainsInner(boxes[outer], boxes[inner])
    /\ InnerContainsOuter(boxes[outer], boxes[inner])
    /\ boxes' = Erase(boxes, outer)
    /\ outer' = P1OuterAfterErase(outer)
    /\ inner' = 0
    /\ pc' = "p1_outer"
    /\ UNCHANGED <<outer_iter, inner_iter, run, in0, out1>>
    /\ UNCHANGED notDup

\* line 168
P1Advance ==
    /\ pc = "p1_inner"
    /\ inner # Len(boxes) + 1
    /\ ~OuterContainsInner(boxes[outer], boxes[inner])
    /\ ~InnerContainsOuter(boxes[outer], boxes[inner])
    /\ inner' = inner + 1
    /\ UNCHANGED <<boxes, outer, outer_iter, inner_iter, pc, run, in0, out1>>
    /\ UNCHANGED notDup

\* line 172-173
P2Begin ==
    /\ pc = "p2_begin"
    /\ outer_iter' = 1
    /\ pc' = "p2_outer"
    /\ UNCHANGED <<boxes, outer, inner, inner_iter, run, in0, out1>>
    /\ UNCHANGED notDup

\* line 175 (condition), 176-177
P2OuterNext ==
    /\ pc = "p2_outer"
    /\ outer_iter # Len(boxes) + 1
    /\ inner_iter' = outer_iter + 1
    /\ pc' = "p2_inner"
    /\ UNCHANGED <<boxes, outer, inner, outer_iter, run, in0, out1>>
    /\ UNCHANGED notDup

\* line 175 (condition false), 197: remove_dup returns
P2OuterEnd ==
    /\ pc = "p2_outer"
    /\ outer_iter = Len(boxes) + 1
    /\ outer_iter' = 0
    /\ pc' = "done"
    /\ UNCHANGED <<boxes, outer, inner, inner_iter, run, in0, out1>>
    /\ UNCHANGED notDup

\* line 179 (condition false), 195
P2InnerEnd ==
    /\ pc = "p2_inner"
    /\ inner_iter = Len(boxes) + 1
    /\ outer_iter' = outer_iter + 1
    /\ inner_iter' = 0
    /\ pc' = "p2_outer"
    /\ UNCHANGED <<boxes, outer, inner, run, in0, out1>>
    /\ UNCHANGED notDup

\* line 180-183
P2EraseInner ==
    /\ pc = "p2_inner"
    /\ inner_iter # Len(boxes) + 1
    /\ Overlap(boxes[outer_iter], boxes[inner_iter])
    /\ OuterDominates(boxes[outer_iter], boxes[inner_iter])
    /\ boxes' = Erase(boxes, inner_iter)
    /\ UNCHANGED <<outer, inner, outer_iter, inner_iter, pc, run, in0, out1>>
    /\ UNCHANGED notDup

\* line 184-189
P2EraseOuter ==
    /\ pc = "p2_inner"
    /\ inner_iter # Len(boxes) + 1
    /\ Overlap(boxes[outer_iter], boxes[inner_iter])
    /\ ~OuterDominates(boxes[outer_iter], boxes[inner_iter])
    /\ boxes' = Erase(boxes, outer_iter)
    /\ inner_iter' = outer_iter + 1
    /\ UNCHANGED <<outer, inner, outer_iter, pc, run, in0, out1>>
    /\ UNCHANGED notDup

\* line 190-192
P2Advance ==
    /\ pc = "p2_inner"
    /\ inner_iter # Len(boxes) + 1
    /\ ~Overlap(boxes[outer_iter], boxes[inner_iter])
    /\ inner_iter' = inner_iter + 1
    /\ UNCHANGED <<boxes, outer, inner, outer_iter, pc, run, in0, out1>>
    /\ UNCHANGED notDup

\* remove_dup applied to the sequence a first application returned
Reapply ==
    /\ pc = "done"
    /\ run = 1
    /\ out1' = boxes
    /\ run' = 2
    /\ pc' = "entry"
    /\ UNCHANGED <<boxes, outer, inner, outer_iter, inner_iter, in0>>
    /\ UNCHANGED notDup

NextDup ==
    \/ P1Begin
    \/ P1OuterNext
    \/ P1OuterEnd
    \/ P1InnerEnd
    \/ P1EraseInner
    \/ P1EraseOuter
    \/ P1Advance
    \/ P2Begin
    \/ P2OuterNext
    \/ P2OuterEnd
    \/ P2InnerEnd
    \/ P2EraseInner
    \/ P2EraseOuter
    \/ P2Advance
    \/ Reapply

SpecDup == InitDup /\ [][NextDup]_vars

\* ------------------------------------------------------ create_text_areas
\* cv::Size::area()
size_area(sz) == sz.width * sz.height

\* the rectangles cv::Mat(image, r) accepts: r lies inside the image
RectsIn(sz) ==
    {r \in [x : 0..sz.width, y : {0}, width : 0..sz.width, height : 0..sz.height] :
        r.x + r.width <= sz.width}

\* line 212: int division of non-negative operands
CoversImageMut(sum, sz) == sum > size_area(sz) \div 2

CoversImage(sum, sz) == sum >= size_area(sz) \div 2

\* line 213-215: the whole image in grayscale
GrayImage(sz) ==
    [kind |-> "gray", roi |-> [x |-> 0, y |-> 0, width |-> sz.width, height |-> sz.height]]

\* line 218-221: the crop at r in grayscale, then binarized
BwCrop(r) == [kind |-> "bw", roi |-> r]

InitAreas ==
    /\ IdleDup /\ IdleStr /\ IdleNorm /\ IdleGet
    /\ image \in [width : 1..MaxImage, height : 1..MaxImage]
    /\ ta_boxes \in SeqsUpTo(RectsIn(image), MaxAreaBoxes)
    /\ sum_area = 0
    /\ text_areas = <<>>
    /\ ta_i = 1
    /\ ta_pc = "sum"

\* line 206-208
TASum ==
    /\ ta_pc = "sum"
    /\ ta_i # Len(ta_boxes) + 1
    /\ sum_area' = sum_area + area(ta_boxes[ta_i])
    /\ ta_i' = ta_i + 1
    /\ UNCHANGED <<image, ta_boxes, text_areas, ta_pc>>
    /\ UNCHANGED notAreas

\* line 206 (range exhausted), 210
TASumEnd ==
    /\ ta_pc = "sum"
    /\ ta_i = Len(ta_boxes) + 1
    /\ ta_i' = 0
    /\ ta_pc' = "test"
    /\ UNCHANGED <<image, ta_boxes, sum_area, text_areas>>
    /\ UNCHANGED notAreas

\* line 212-215, 225
TAWhole ==
    /\ ta_pc = "test"
    /\ CoversImage(sum_area, image)
    /\ text_areas' = Append(text_areas, GrayImage(image))
    /\ ta_pc' = "done"
    /\ UNCHANGED <<image, ta_boxes, sum_area, ta_i>>
    /\ UNCHANGED notAreas

\* line 216
TAElse ==
    /\ ta_pc = "test"
    /\ ~CoversImage(sum_area, image)
    /\ ta_i' = 1
    /\ ta_pc' = "crop"
    /\ UNCHANGED <<image, ta_boxes, sum_area, text_areas>>
    /\ UNCHANGED notAreas

\* line 217-222
TACrop ==
    /\ ta_pc = "crop"
    /\ ta_i # Len(ta_boxes) + 1
    /\ text_areas' = Append(text_areas, BwCrop(ta_boxes[ta_i]))
    /\ ta_i' = ta_i + 1
    /\ UNCHANGED <<image, ta_boxes, sum_area, ta_pc>>
    /\ UNCHANGED notAreas

\* line 217 (range exhausted), 225
TAReturn ==
    /\ ta_pc = "crop"
    /\ ta_i = Len(ta_boxes) + 1
    /\ ta_i' = 0
    /\ ta_pc' = "done"
    /\ UNCHANGED <<image, ta_boxes, sum_area, text_areas>>
    /\ UNCHANGED notAreas

NextAreas ==
    \/ TASum
    \/ TASumEnd
    \/ TAWhole
    \/ TAElse
    \/ TACrop
    \/ TAReturn

SpecAreas == InitAreas /\ [][NextAreas]_vars

\* ------------------------------------------------------ string_processing
LowerA == 97
LowerZ == 122
UpperA == 65
UpperZ == 90
Digit0 == 48
Digit9 == 57
Space == 32
Comma == 44
Period == 46
Bang == 33
Question == 63
Newline == 10

\* the characters of the raw strings: a letter, a space, a newline and '{',
\* a character outside the allowed set
InputChars == {LowerA, Space, Newline, LowerZ + 1}

\* s[i] of a std::string
At(s, i) == s[i + 1]

\* line 282-286
IsAllowed(ch) ==
    \/ (ch >= LowerA /\ ch <= LowerZ)
    \/ (ch >= UpperA /\ ch <= UpperZ)
    \/ (ch >= Digit0 /\ ch <= Digit9)
    \/ ch = Space
    \/ ch = Comma
    \/ ch = Period
    \/ ch = Bang
    \/ ch = Question

\* line 289-290: the neighbours are those of the raw string
NewlineKept(s, i, n) ==
    /\ i # 0
    /\ i # n - 1
    /\ At(s, i - 1) # Newline
    /\ At(s, i + 1) # Newline

\* line 301
SpaceKept(s, i, n) ==
    /\ i # 0
    /\ i # n - 1
    /\ At(s, i - 1) # Space

InitStr ==
    /\ IdleDup /\ IdleAreas /\ IdleNorm /\ IdleGet
    /\ str \in SeqsUpTo(InputChars, MaxStrLen)
    /\ len = Len(str)
    /\ idx = 0
    /\ norm1 = <<>>
    /\ norm2 = <<>>
    /\ sp_pc = "pass1"

\* line 282-287
SP1Keep ==
    /\ sp_pc = "pass1"
    /\ idx < len
    /\ IsAllowed(At(str, idx))
    /\ norm1' = Append(norm1, At(str, idx))
    /\ idx' = idx + 1
    /\ UNCHANGED <<str, len, norm2, sp_pc>>
    /\ UNCHANGED notStr

\* line 288-292
SP1KeepNewline ==
    /\ sp_pc = "pass1"
    /\ idx < len
    /\ ~IsAllowed(At(str, idx))
    /\ At(str, idx) = Newline
    /\ NewlineKept(str, idx, len)
    /\ norm1' = Append(norm1, At(str, idx))
    /\ idx' = idx + 1
    /\ UNCHANGED <<str, len, norm2, sp_pc>>
    /\ UNCHANGED notStr

\* line 288-293: a newline that fails the test of line 289-290
SP1DropNewline ==
    /\ sp_pc = "pass1"
    /\ idx < len
    /\ ~IsAllowed(At(str, idx))
    /\ At(str, idx) = Newline
    /\ ~NewlineKept(str, idx, len)
    /\ idx' = idx + 1
    /\ UNCHANGED <<str, len, norm1, norm2, sp_pc>>
    /\ UNCHANGED notStr

\* line 281-293: any other character is dropped
SP1Drop ==
    /\ sp_pc = "pass1"
    /\ idx < len
    /\ ~IsAllowed(At(str, idx))
    /\ At(str, idx) # Newline
    /\ idx' = idx + 1
    /\ UNCHANGED <<str, len, norm1, norm2, sp_pc>>
    /\ UNCHANGED notStr

\* line 281 (condition false), 297-299
SP1End ==
    /\ sp_pc = "pass1"
    /\ ~(idx < len)
    /\ len' = Len(norm1)
    /\ idx' = 0
    /\ sp_pc' = "pass2"
    /\ UNCHANGED <<str, norm1, norm2>>
    /\ UNCHANGED notStr

\* line 300-303
SP2KeepSpace ==
    /\ sp_pc = "pass2"
    /\ idx < len
    /\ At(norm1, idx) = Space
    /\ SpaceKept(norm1, idx, len)
    /\ norm2' = Append(norm2, Space)
    /\ idx' = idx + 1
    /\ UNCHANGED <<str, len, norm1, sp_pc>>
    /\ UNCHANGED notStr

\* line 300-303: a space that fails the test of line 301
SP2DropSpace ==
    /\ sp_pc = "pass2"
    /\ idx < len
    /\ At(norm1, idx) = Space
    /\ ~SpaceKept(norm1, idx, len)
    /\ idx' = idx + 1
    /\ UNCHANGED <<str, len, norm1, norm2, sp_pc>>
    /\ UNCHANGED notStr

\* line 304-306
SP2Copy ==
    /\ sp_pc = "pass2"
    /\ idx < len
    /\ At(norm1, idx) # Space
    /\ norm2' = Append(norm2, At(norm1, idx))
    /\ idx' = idx + 1
    /\ UNCHANGED <<str, len, norm1, sp_pc>>
    /\ UNCHANGED notStr

\* line 299 (condition false), 309
SP2Return ==
    /\ sp_pc = "pass2"
    /\ ~(idx < len)
    /\ sp_pc' = "done"
    /\ UNCHANGED <<str, len, idx, norm1, norm2>>
    /\ UNCHANGED notStr

NextStr ==
    \/ SP1Keep
    \/ SP1KeepNewline
    \/ SP1DropNewline
    \/ SP1Drop
    \/ SP1End
    \/ SP2KeepSpace
    \/ SP2DropSpace
    \/ SP2Copy
    \/ SP2Return

SpecStr == InitStr /\ [][NextStr]_vars

\* ------------------------------------------------------- normalize_result
\* the characters of the text fragments: two letters and the separator
WordChars == {LowerA, LowerA + 1, Space}

\* line 326-329: str.find(' ', start), str.length() when there is none
FindEnd(s, from) ==
    LET hits == {i \in 0..(Len(s) - 1) : i >= from /\ At(s, i) = Space}
    IN  IF hits = {}
        THEN Len(s)
        ELSE CHOOSE i \in hits : \A j \in hits : i <= j

\* std::string::substr(pos, count): count is clamped to the rest of s
Substr(s, pos, count) == SubSeq(s, pos + 1, pos + Min2(count, Len(s) - pos))

\* line 333: std::find(words.begin(), words.end(), tmp) == words.end()
NotInWords(ws, tmp) == \A k \in 1..Len(ws) : ws[k] # tmp

\* line 345: str.substr(0, str.length() - 2); for a length below 2 the
\* size_t difference wraps to a count beyond the string and substr clamps it
TrimTail(s) ==
    IF Len(s) >= 2 THEN Substr(s, 0, Len(s) - 2) ELSE Substr(s, 0, Len(s))

InitNorm ==
    /\ IdleDup /\ IdleAreas /\ IdleStr /\ IdleGet
    /\ text \in SeqsUpTo(SeqsUpTo(WordChars, MaxFragLen), MaxFrags)
    /\ n_str = <<>>
    /\ words = <<>>
    /\ start = 0
    /\ n_i = 1
    /\ n_pc = "concat"

\* line 319-321
NAppend ==
    /\ n_pc = "concat"
    /\ n_i # Len(text) + 1
    /\ n_str' = n_str \o text[n_i] \o <<Space>>
    /\ n_i' = n_i + 1
    /\ UNCHANGED <<text, words, start, n_pc>>
    /\ UNCHANGED notNorm

\* line 319 (range exhausted), 323-325
NConcatEnd ==
    /\ n_pc = "concat"
    /\ n_i = Len(text) + 1
    /\ n_i' = 0
    /\ n_pc' = "split"
    /\ UNCHANGED <<text, n_str, words, start>>
    /\ UNCHANGED notNorm

\* line 326-338 with a token not seen before
NTokenNew ==
    /\ n_pc = "split"
    /\ LET end == FindEnd(n_str, start)
           tmp == Substr(n_str, start, end - start)
       IN  /\ NotInWords(words, tmp)
           /\ words' = Append(words, tmp)
           /\ start' = end + 1
           /\ n_pc' = IF end + 1 < Len(n_str) THEN "split" ELSE "clear"
    /\ UNCHANGED <<text, n_str, n_i>>
    /\ UNCHANGED notNorm

\* line 326-338 with a token already in words
NTokenSeen ==
    /\ n_pc = "split"
    /\ LET end == FindEnd(n_str, start)
           tmp == Substr(n_str, start, end - start)
       IN  /\ ~NotInWords(words, tmp)
           /\ start' = end + 1
           /\ n_pc' = IF end + 1 < Len(n_str) THEN "split" ELSE "clear"
    /\ UNCHANGED <<text, n_str, words, n_i>>
    /\ UNCHANGED notNorm

\* line 340
NClear ==
    /\ n_pc = "clear"
    /\ n_str' = <<>>
    /\ n_i' = 1
    /\ n_pc' = "join"
    /\ UNCHANGED <<text, words, start>>
    /\ UNCHANGED notNorm

\* line 341-343
NJoin ==
    /\ n_pc = "join"
    /\ n_i # Len(words) + 1
    /\ n_str' = n_str \o words[n_i] \o <<Space>>
    /\ n_i' = n_i + 1
    /\ UNCHANGED <<text, words, start, n_pc>>
    /\ UNCHANGED notNorm

\* line 341 (range exhausted), 345-347
NTrim ==
    /\ n_pc = "join"
    /\ n_i = Len(words) + 1
    /\ n_str' = TrimTail(n_str)
    /\ n_i' = 0
    /\ n_pc' = "done"
    /\ UNCHANGED <<text, words, start>>
    /\ UNCHANGED notNorm

NextNorm ==
    \/ NAppend
    \/ NConcatEnd
    \/ NTokenNew
    \/ NTokenSeen
    \/ NClear
    \/ NJoin
    \/ NTrim

SpecNorm == InitNorm /\ [][NextNorm]_vars

\* ------------------------------- get_text(const cv::Mat&), find_text_rects
GUnch(vs) == UNCHANGED vs /\ UNCHANGED notGet

\* a library call raises cv::Exception at step s and control goes to where
\* find_text_rects handles it: "catch" inside the try block of line 92-139,
\* "frt_unwind" outside of it
Raise(s, handler) ==
    /\ exc' = "cv::Exception"
    /\ raised_by' = s
    /\ g_pc' = handler
    /\ GUnch(<<image_empty, cn, c, nboxes, nareas, outcome>>)

InitGet ==
    /\ IdleDup /\ IdleAreas /\ IdleStr /\ IdleNorm
    /\ image_empty \in BOOLEAN
    /\ cn = 0
    /\ c = 0
    /\ nboxes = 0
    /\ nareas = 0
    /\ exc = "none"
    /\ raised_by = "none"
    /\ outcome = "running"
    /\ g_pc = "gt_entry"

\* line 61-63
GTEmptyImage ==
    /\ g_pc = "gt_entry"
    /\ image_empty
    /\ exc' = "RecException"
    /\ raised_by' = "input"
    /\ g_pc' = "gt_unwind"
    /\ GUnch(<<image_empty, cn, c, nboxes, nareas, outcome>>)

\* line 61 (condition false), 65: find_text_rects is called
GTCallFind ==
    /\ g_pc = "gt_entry"
    /\ ~image_empty
    /\ g_pc' = "decompose"
    /\ GUnch(<<image_empty, cn, c, nboxes, nareas, exc, raised_by, outcome>>)

\* line 82-85: computeNMChannels delivers the channels
FRDecompose ==
    /\ g_pc = "decompose"
    /\ cn' \in 1..MaxChannels
    /\ c' = 0
    /\ g_pc' = "invert"
    /\ GUnch(<<image_empty, nboxes, nareas, exc, raised_by, outcome>>)

\* line 83: computeNMChannels raises, before the try block is entered
FRDecomposeFails ==
    /\ g_pc = "decompose"
    /\ Raise("decompose", "frt_unwind")

\* line 86-88
FRInvert ==
    /\ g_pc = "invert"
    /\ c < cn - 1
    /\ c' = c + 1
    /\ GUnch(<<image_empty, cn, nboxes, nareas, exc, raised_by, outcome, g_pc>>)

\* line 86 (condition false), 90-92: the try block is entered
FRInvertEnd ==
    /\ g_pc = "invert"
    /\ ~(c < cn - 1)
    /\ g_pc' = "createNM1"
    /\ GUnch(<<image_empty, cn, c, nboxes, nareas, exc, raised_by, outcome>>)

\* line 94-102
FRCreateNM1 ==
    /\ g_pc = "createNM1"
    /\ g_pc' = "createNM2"
    /\ GUnch(<<image_empty, cn, c, nboxes, nareas, exc, raised_by, outcome>>)

FRCreateNM1Fails ==
    /\ g_pc = "createNM1"
    /\ Raise("createNM1", "catch")

\* line 104-107
FRCreateNM2 ==
    /\ g_pc = "createNM2"
    /\ g_pc' = "check"
    /\ GUnch(<<image_empty, cn, c, nboxes, nareas, exc, raised_by, outcome>>)

FRCreateNM2Fails ==
    /\ g_pc = "createNM2"
    /\ Raise("createNM2", "catch")

\* line 109-111: a null filter; RecException is not a cv::Exception, the
\* handler of line 137 does not take it
FRFilterNull ==
    /\ g_pc = "check"
    /\ exc' = "RecException"
    /\ raised_by' = "filter_null"
    /\ g_pc' = "frt_unwind"
    /\ GUnch(<<image_empty, cn, c, nboxes, nareas, outcome>>)

\* line 109 (condition false), 115-117: cn counts the inverted channels too
FRFiltersOk ==
    /\ g_pc = "check"
    /\ cn' = cn + (cn - 1)
    /\ c' = 0
    /\ g_pc' = "run1"
    /\ GUnch(<<image_empty, nboxes, nareas, exc, raised_by, outcome>>)

\* line 118
FRRun1 ==
    /\ g_pc = "run1"
    /\ g_pc' = "run2"
    /\ GUnch(<<image_empty, cn, c, nboxes, nareas, exc, raised_by, outcome>>)

FRRun1Fails ==
    /\ g_pc = "run1"
    /\ Raise("run1", "catch")

\* line 119, then ++c and the condition of line 117
FRRun2 ==
    /\ g_pc = "run2"
    /\ c' = c + 1
    /\ g_pc' = IF c + 1 < cn THEN "run1" ELSE "grouping"
    /\ GUnch(<<image_empty, cn, nboxes, nareas, exc, raised_by, outcome>>)

FRRun2Fails ==
    /\ g_pc = "run2"
    /\ Raise("run2", "catch")

\* line 123-135: erGrouping fills boxes_groups, find_text_rects returns
FRGrouping ==
    /\ g_pc = "grouping"
    /\ nboxes' \in 0..MaxGroups
    /\ g_pc' = "gt_size"
    /\ GUnch(<<image_empty, cn, c, nareas, exc, raised_by, outcome>>)

FRGroupingFails ==
    /\ g_pc = "grouping"
    /\ Raise("grouping", "catch")

\* line 137-139
FRCatch ==
    /\ g_pc = "catch"
    /\ exc = "cv::Exception"
    /\ exc' = "RecException"
    /\ g_pc' = "frt_unwind"
    /\ GUnch(<<image_empty, cn, c, nboxes, nareas, raised_by, outcome>>)

\* line 79-80: find_text_rects has no exception specification, whatever
\* leaves it arrives in get_text at line 65, outside of any handler
FRPropagate ==
    /\ g_pc = "frt_unwind"
    /\ g_pc' = "gt_unwind"
    /\ GUnch(<<image_empty, cn, c, nboxes, nareas, exc, raised_by, outcome>>)

\* line 59: throw (RecException) lets a RecException reach the caller
GTThrowsRecException ==
    /\ g_pc = "gt_unwind"
    /\ exc = "RecException"
    /\ outcome' = "RecException"
    /\ g_pc' = "ended"
    /\ GUnch(<<image_empty, cn, c, nboxes, nareas, exc, raised_by>>)

\* line 59: any other exception violates throw (RecException);
\* std::unexpected() is called and the caller receives nothing
GTUnexpected ==
    /\ g_pc = "gt_unwind"
    /\ exc # "RecException"
    /\ outcome' = "unexpected"
    /\ g_pc' = "ended"
    /\ GUnch(<<image_empty, cn, c, nboxes, nareas, exc, raised_by>>)

\* line 66-68
GTNoBoxes ==
    /\ g_pc = "gt_size"
    /\ nboxes = 0
    /\ outcome' = "returned"
    /\ g_pc' = "ended"
    /\ GUnch(<<image_empty, cn, c, nboxes, nareas, exc, raised_by>>)

\* line 70: remove_dup leaves at least one rectangle
GTRemoveDup ==
    /\ g_pc = "gt_size"
    /\ nboxes # 0
    /\ nboxes' \in 1..nboxes
    /\ g_pc' = "create_text_areas"
    /\ GUnch(<<image_empty, cn, c, nareas, exc, raised_by, outcome>>)

\* line 71: one area for the whole image or one per rectangle
GTCreateTextAreas ==
    /\ g_pc = "create_text_areas"
    /\ nareas' \in {1, nboxes}
    /\ g_pc' = "ocr_init"
    /\ GUnch(<<image_empty, cn, c, nboxes, exc, raised_by, outcome>>)

\* line 239 (Init succeeds), 244
AAInit ==
    /\ g_pc = "ocr_init"
    /\ c' = 0
    /\ g_pc' = "recognize"
    /\ GUnch(<<image_empty, cn, nboxes, nareas, exc, raised_by, outcome>>)

\* line 239-241
AAInitFails ==
    /\ g_pc = "ocr_init"
    /\ exc' = "RecException"
    /\ raised_by' = "ocr_init"
    /\ g_pc' = "gt_unwind"
    /\ GUnch(<<image_empty, cn, c, nboxes, nareas, outcome>>)

\* line 244-261: an area is recognized, or its failure is skipped
AARecognize ==
    /\ g_pc = "recognize"
    /\ c < nareas
    /\ c' = c + 1
    /\ GUnch(<<image_empty, cn, nboxes, nareas, exc, raised_by, outcome, g_pc>>)

\* line 244 (range exhausted), 263-270, 73
AAReturn ==
    /\ g_pc = "recognize"
    /\ ~(c < nareas)
    /\ outcome' = "returned"
    /\ g_pc' = "ended"
    /\ GUnch(<<image_empty, cn, c, nboxes, nareas, exc, raised_by>>)

NextGet ==
    \/ GTEmptyImage
    \/ GTCallFind
    \/ FRDecompose
    \/ FRDecomposeFails
    \/ FRInvert
    \/ FRInvertEnd
    \/ FRCreateNM1
    \/ FRCreateNM1Fails
    \/ FRCreateNM2
    \/ FRCreateNM2Fails
    \/ FRFilterNull
    \/ FRFiltersOk
    \/ FRRun1
    \/ FRRun1Fails
    \/ FRRun2
    \/ FRRun2Fails
    \/ FRGrouping
    \/ FRGroupingFails
    \/ FRCatch
    \/ FRPropagate
    \/ GTThrowsRecException
    \/ GTUnexpected
    \/ GTNoBoxes
    \/ GTRemoveDup
    \/ GTCreateTextAreas
    \/ AAInit
    \/ AAInitFails
    \/ AARecognize
    \/ AAReturn

SpecGet == InitGet /\ [][NextGet]_vars

\* ------------------------------------------------------------- properties
Positions(s) == 1..Len(s)

\* both corners of b lie within a
BothCornersIn(a, b) == contains(a, tl(b)) /\ contains(a, br(b))

HasContainment(s) ==
    \E i \in Positions(s) : \E j \in Positions(s) :
        i # j /\ BothCornersIn(s[i], s[j])

\* two rectangles of equal area whose intersection has positive area
TieOverlap(a, b) == area(a) = area(b) /\ area(RectAnd(a, b)) > 0

\* C1: after remove_dup returns, every two rectangles at distinct positions
\* of the output have an intersection of area zero.
C1_NoOverlap ==
    pc = "done" =>
        \A i \in Positions(boxes) : \A j \in Positions(boxes) :
            i # j => area(RectAnd(boxes[i], boxes[j])) = 0

C1_Witness ==
    /\ pc = "done"
    /\ run = 1
    /\ Len(boxes) >= 2
    /\ Len(boxes) < Len(in0)
    /\ \E i \in Positions(in0) : \E j \in Positions(in0) :
          i # j /\ area(RectAnd(in0[i], in0[j])) > 0

\* C2: after remove_dup returns there are no two distinct output rectangles
\* A and B such that both corners of B lie within A (rectangles of
\* non-negative width and height, zero-area ones included).
C2_NoContainment ==
    (pc = "done" /\ run = 1) => ~HasContainment(boxes)

\* C3 as stated: of an equal-area overlapping pair [A, B] remove_dup keeps A,
\* the earlier one, and removes B.
C3_KeepsEarlier ==
    (pc = "done" /\ run = 1 /\ Len(in0) = 2 /\ TieOverlap(in0[1], in0[2]))
        => boxes = <<in0[1]>>

C3_PairKeepsLater ==
    (pc = "done" /\ run = 1 /\ Len(in0) = 2 /\ TieOverlap(in0[1], in0[2]))
        => boxes = <<in0[2]>>

C3_Pass2TieErasesOuter ==
    (/\ pc = "p2_inner"
     /\ inner_iter # Len(boxes) + 1
     /\ TieOverlap(boxes[outer_iter], boxes[inner_iter]))
        => boxes' = Erase(boxes, outer_iter)

\* C3 as amended: of an equal-area overlapping pair [A, B] remove_dup keeps
\* B, the later one, and removes A; in pass 2 an equal-area overlapping pair
\* is resolved by removing the earlier (outer) element.
C3_TieRemovesEarlier ==
    /\ []C3_PairKeepsLater
    /\ [][C3_Pass2TieErasesOuter]_vars

C3_Witness ==
    /\ pc = "done"
    /\ run = 1
    /\ Len(in0) = 2
    /\ TieOverlap(in0[1], in0[2])
    /\ in0[1] # in0[2]
    /\ boxes = <<in0[2]>>

\* C4: applying remove_dup to the output of remove_dup removes nothing and
\* leaves the sequence identical.
C4_Idempotent ==
    (pc = "done" /\ run = 2) => boxes = out1

\* C10: at the end of pass 1 no remaining rectangle has both its corners
\* inside another remaining rectangle.
C10_Pass1NoContainment ==
    (pc = "p2_begin" /\ run = 1) => ~HasContainment(boxes)

RECURSIVE SumAreas(_)
SumAreas(s) == IF s = <<>> THEN 0 ELSE area(Head(s)) + SumAreas(Tail(s))

PerRectangle(s) == [k \in 1..Len(s) |-> [kind |-> "bw", roi |-> s[k]]]

WholeOnly(sz) ==
    <<[kind |-> "gray",
       roi |-> [x |-> 0, y |-> 0, width |-> sz.width, height |-> sz.height]]>>

\* C5 as stated: one region for the whole image in grayscale if and only if
\* 2 * sum >= width * height, otherwise one region per rectangle, in order.
C5_ExactHalf ==
    ta_pc = "done" =>
        IF 2 * SumAreas(ta_boxes) >= image.width * image.height
        THEN text_areas = WholeOnly(image)
        ELSE text_areas = PerRectangle(ta_boxes)

\* C5 as amended: one region for the whole image in grayscale if and only if
\* sum >= (width * height) div 2 (half the image area rounded down),
\* otherwise one region per rectangle, in order.
C5_FloorHalf ==
    ta_pc = "done" =>
        IF SumAreas(ta_boxes) >= (image.width * image.height) \div 2
        THEN text_areas = WholeOnly(image)
        ELSE text_areas = PerRectangle(ta_boxes)

C5_Witness ==
    /\ ta_pc = "done"
    /\ (image.width * image.height) % 2 = 1
    /\ Len(ta_boxes) = 2
    /\ SumAreas(ta_boxes) = (image.width * image.height) \div 2
    /\ SumAreas(ta_boxes) > 0
    /\ text_areas = WholeOnly(image)

\* C6: the output of string_processing contains no newline adjacent to
\* another newline, and no newline as its first or last character.
C6_NewlinesIsolated ==
    sp_pc = "done" =>
        /\ \A k \in 1..(Len(norm2) - 1) :
              ~(norm2[k] = Newline /\ norm2[k + 1] = Newline)
        /\ norm2 # <<>> => (norm2[1] # Newline /\ norm2[Len(norm2)] # Newline)

\* C7: the output of string_processing neither begins nor ends with a space.
C7_NoOuterSpace ==
    sp_pc = "done" =>
        (norm2 # <<>> => (norm2[1] # Space /\ norm2[Len(norm2)] # Space))

RECURSIVE Flatten(_)
Flatten(t) ==
    IF t = <<>> THEN <<>> ELSE Head(t) \o <<Space>> \o Flatten(Tail(t))

RECURSIVE TokensFrom(_, _)
TokensFrom(s, cur) ==
    IF s = <<>>
    THEN IF cur = <<>> THEN <<>> ELSE <<cur>>
    ELSE IF Head(s) = Space
         THEN IF cur = <<>>
              THEN TokensFrom(Tail(s), <<>>)
              ELSE <<cur>> \o TokensFrom(Tail(s), <<>>)
         ELSE TokensFrom(Tail(s), Append(cur, Head(s)))

RECURSIVE FirstOccurrences(_, _)
FirstOccurrences(ws, seen) ==
    IF ws = <<>>
    THEN <<>>
    ELSE IF Head(ws) \in seen
         THEN FirstOccurrences(Tail(ws), seen)
         ELSE <<Head(ws)>> \o FirstOccurrences(Tail(ws), seen \cup {Head(ws)})

RECURSIVE JoinWords(_)
JoinWords(ws) ==
    IF ws = <<>>
    THEN <<>>
    ELSE IF Len(ws) = 1
         THEN Head(ws)
         ELSE Head(ws) \o <<Space>> \o JoinWords(Tail(ws))

\* C8: normalize_result returns the space-delimited word tokens of the
\* concatenated text, only the first occurrence of each kept, in
\* first-occurrence order, joined by single spaces with no trailing separator
\* and no token truncated; the empty string for an empty input.
C8_FirstOccurrencesJoined ==
    n_pc = "done" =>
        n_str = JoinWords(FirstOccurrences(TokensFrom(Flatten(text), <<>>), {}))

\* C9: every fatal failure during a get_text call, whichever step raises it,
\* reaches the caller as RecException.
C9_FatalIsRecException ==
    (g_pc = "ended" /\ raised_by # "none") => outcome = "RecException"

====
